---- MODULE Spec2Model ----
(***************************************************************************)
(* Model of pysofa/sofa.py: the readers SOFA, AudioObject and FIR, and the *)
(* two field binders _add_data and _add_attribute.                         *)
(*                                                                         *)
(* A Python object is modelled by its attribute dictionary: a function     *)
(* whose DOMAIN is the set of attribute names that have been assigned.     *)
(* An exception is modelled by an `err` record; every statement after a    *)
(* raise is skipped until the call returns to the caller of the reader.    *)
(***************************************************************************)
EXTENDS Integers, Sequences, FiniteSets, TLC

\* Largest number of arbitrary items that a container of the model lacks.
MaxMissing == 1

-----------------------------------------------------------------------------
(* Schema lists, as written in the source.                                 *)

req_attributes ==
  << "Conventions", "Version", "SOFAConventions", "SOFAConventionsVersion",
     "DataType", "RoomType", "Title", "DateCreated", "DateModified",
     "APIName", "APIVersion", "AuthorContact", "Organization", "License" >>

other_attributes ==
  << "ApplicationName", "ApplicationVersion", "Comment", "History",
     "References", "Origin" >>

required_datasets == << "Position" >>

ao_req_attributes == << "Type", "Units" >>

other_datasets == << "Description", "View", "Up" >>

datasets == << "Data.IR", "Data.Delay", "Data.SamplingRate" >>

fir_attributes == << "Units" >>

\* The four AudioObject constructions of SOFA.from_file: slot and node prefix.
audio_objects ==
  << [slot |-> "listener", object_string |-> "Listener"],
     [slot |-> "source",   object_string |-> "Source"],
     [slot |-> "receiver", object_string |-> "Receiver"],
     [slot |-> "emitter",  object_string |-> "Emitter"] >>

\* The file name written into AudioObject.from_file and FIR.from_file.
DefaultFileName == "dtf_nh2.sofa"

Range(s) == { s[i] : i \in DOMAIN s }

ObjectStrings == { audio_objects[i].object_string : i \in DOMAIN audio_objects }

-----------------------------------------------------------------------------
(* Containers.  An item is <<node, attribute>>; attribute "" is the node's  *)
(* dataset itself.  A container lists the items it lacks; every other item  *)
(* of the schema is present.                                                *)

RootItems == { <<"/", a>> : a \in Range(req_attributes) \cup Range(other_attributes) }

AudioItems ==
  { <<"/" \o r \o p, "">> :
      r \in ObjectStrings, p \in Range(required_datasets) \cup Range(other_datasets) }
  \cup { <<"/" \o r \o "Position", a>> : r \in ObjectStrings, a \in Range(ao_req_attributes) }

DataItems ==
  { <<"/" \o d, "">> : d \in Range(datasets) }
  \cup { <<"/Data.SamplingRate", a>> : a \in Range(fir_attributes) }

Items == RootItems \cup AudioItems \cup DataItems

DataTypes == { "FIR", "XYZ" }

\* Text stored in the string attributes and datasets of a container.
Texts == { "", "x" }

\* The items of the schema in the order SOFA.from_file is to bind them.
BindOrder ==
  [ i \in 1..Len(req_attributes) |-> <<"/", req_attributes[i]>> ]
  \o [ i \in 1..Len(other_attributes) |-> <<"/", other_attributes[i]>> ]
  \o << <<"/ListenerPosition", "">>, <<"/ListenerPosition", "Type">>,
        <<"/ListenerPosition", "Units">>, <<"/ListenerDescription", "">>,
        <<"/ListenerView", "">>, <<"/ListenerUp", "">>,
        <<"/SourcePosition", "">>, <<"/SourcePosition", "Type">>,
        <<"/SourcePosition", "Units">>, <<"/SourceDescription", "">>,
        <<"/SourceView", "">>, <<"/SourceUp", "">>,
        <<"/ReceiverPosition", "">>, <<"/ReceiverPosition", "Type">>,
        <<"/ReceiverPosition", "Units">>, <<"/ReceiverDescription", "">>,
        <<"/ReceiverView", "">>, <<"/ReceiverUp", "">>,
        <<"/EmitterPosition", "">>, <<"/EmitterPosition", "Type">>,
        <<"/EmitterPosition", "Units">>, <<"/EmitterDescription", "">>,
        <<"/EmitterView", "">>, <<"/EmitterUp", "">> >>
  \o << <<"/Data.IR", "">>, <<"/Data.Delay", "">>, <<"/Data.SamplingRate", "">>,
        <<"/Data.SamplingRate", "Units">> >>

\* A file whose writer stopped early: every item from position k on is absent.
Truncated(k) == { BindOrder[i] : i \in k..Len(BindOrder) }

RECURSIVE SubsetsUpTo(_, _)
\* The subsets of S with at most n elements.
SubsetsUpTo(S, n) ==
  IF n = 0 THEN { {} }
  ELSE LET P == SubsetsUpTo(S, n - 1) IN P \cup { T \cup { x } : T \in P, x \in S }

\* What a container may lack: any few items, or a whole tail of the schema.
MissingSets ==
  SubsetsUpTo(Items, MaxMissing)
  \cup { Truncated(k) : k \in 1..Len(BindOrder) }

Containers ==
  [ missing : MissingSets, dataType : DataTypes, text : Texts ]

\* The file that the hard-coded name refers to: complete, with its own text.
DefaultContainer == [ missing |-> {}, dataType |-> "FIR", text |-> "d" ]

CallerPath == "a.sofa"

\* tables.File.get_node(node): the node exists.
NodePresent(cont, node) == node = "/" \/ <<node, "">> \notin cont.missing

\* tables.File.get_node_attr(node, attribute): node and attribute exist.
AttrPresent(cont, node, attribute) ==
  NodePresent(cont, node) /\ <<node, attribute>> \notin cont.missing

\* tables.File.get_node(node).read()
NodeValue(cont, node) == cont.text

\* tables.File.get_node_attr(node, attribute)
AttrValue(cont, node, attribute) ==
  IF node = "/" /\ attribute = "DataType" THEN cont.dataType ELSE cont.text

-----------------------------------------------------------------------------
(* Python values and objects.                                               *)

NoErr == [ kind |-> "none", msg |-> << >> ]

AssertionError == [ kind |-> "AssertionError", msg |-> << >> ]

IOError(path) == [ kind |-> "IOError", msg |-> << path >> ]

Exception(msg) == [ kind |-> "Exception", msg |-> msg ]

\* object(): no attribute assigned.
EmptyObject == << >>

\* setattr(object, name, value)
setattr(object, name, value) ==
  [ n \in DOMAIN object \cup { name } |-> IF n = name THEN value ELSE object[n] ]

hasattr(object, name) == name \in DOMAIN object

\* Arguments a caller can pass as sofa_file.  val is the text of a str or
\* int, and for a File the handle it denotes.
Args ==
  { [ kind |-> "None", val |-> "" ],
    [ kind |-> "str", val |-> "" ],
    [ kind |-> "str", val |-> CallerPath ],
    [ kind |-> "str", val |-> DefaultFileName ],
    [ kind |-> "int", val |-> "0" ],
    [ kind |-> "int", val |-> "5" ],
    [ kind |-> "File", val |-> "caller" ] }

\* A variant of Truthy: the test written as `if sofa_file is not None:`.
Truthy_is_not_None(a) == a.kind # "None"

\* Python truth value of sofa_file in `if sofa_file:`.
Truthy(a) ==
  CASE a.kind = "None" -> FALSE
    [] a.kind = "str" -> a.val # ""
    [] a.kind = "int" -> a.val # "0"
    [] OTHER -> TRUE

\* isinstance(sofa_file, tbls.file.File)
IsFile(a) == a.kind = "File"

\* isinstance(sofa_file, str)
IsStr(a) == a.kind = "str"

-----------------------------------------------------------------------------
(* The field binders.  b = [obj, err, reads]: the destination object, the   *)
(* pending exception, and the reads made of the container so far.           *)

\* A variant of _add_data that raises for every absent node, required or not.
_add_data_strict(b, cont, node, required, name) ==
  IF b.err # NoErr THEN b
  ELSE LET rd == Append(b.reads, <<node, "">>) IN
       IF NodePresent(cont, node)
       THEN [ b EXCEPT !.obj = setattr(b.obj, IF name = "" THEN node ELSE name,
                                       NodeValue(cont, node)),
                       !.reads = rd ]
       ELSE [ b EXCEPT !.err = Exception(<< "Required Dataset ", node, " not found!" >>),
                       !.reads = rd ]

_add_data(b, cont, node, required, name) ==
  IF b.err # NoErr THEN b
  ELSE LET rd == Append(b.reads, <<node, "">>) IN
       IF NodePresent(cont, node)
       THEN [ b EXCEPT !.obj = setattr(b.obj, IF name = "" THEN node ELSE name,
                                       NodeValue(cont, node)),
                       !.reads = rd ]
       ELSE IF required
            THEN [ b EXCEPT !.err = Exception(<< "Required Dataset ", node, " not found!" >>),
                            !.reads = rd ]
            ELSE [ b EXCEPT !.reads = rd ]

\* A variant of _add_attribute that never raises: `required` is ignored.
_add_attribute_lenient(b, cont, node, attribute, required, name) ==
  IF b.err # NoErr THEN b
  ELSE LET rd == Append(b.reads, <<node, attribute>>) IN
       IF AttrPresent(cont, node, attribute)
       THEN [ b EXCEPT !.obj = setattr(b.obj, IF name = "" THEN attribute ELSE name,
                                       AttrValue(cont, node, attribute)),
                       !.reads = rd ]
       ELSE [ b EXCEPT !.reads = rd ]

\* A variant of _add_attribute that stores '' for an absent optional attribute.
_add_attribute_defaulting(b, cont, node, attribute, required, name) ==
  IF b.err # NoErr THEN b
  ELSE LET rd == Append(b.reads, <<node, attribute>>) IN
       IF AttrPresent(cont, node, attribute)
       THEN [ b EXCEPT !.obj = setattr(b.obj, IF name = "" THEN attribute ELSE name,
                                       AttrValue(cont, node, attribute)),
                       !.reads = rd ]
       ELSE IF required
            THEN [ b EXCEPT !.err = Exception(<< "Required Attribute ", attribute, " not found!" >>),
                            !.reads = rd ]
            ELSE [ b EXCEPT !.obj = setattr(b.obj, IF name = "" THEN attribute ELSE name, ""),
                            !.reads = rd ]

_add_attribute(b, cont, node, attribute, required, name) ==
  IF b.err # NoErr THEN b
  ELSE LET rd == Append(b.reads, <<node, attribute>>) IN
       IF AttrPresent(cont, node, attribute)
       THEN [ b EXCEPT !.obj = setattr(b.obj, IF name = "" THEN attribute ELSE name,
                                       AttrValue(cont, node, attribute)),
                       !.reads = rd ]
       ELSE IF required
            THEN [ b EXCEPT !.err = Exception(<< "Required Attribute ", attribute, " not found!" >>),
                            !.reads = rd ]
            ELSE [ b EXCEPT !.reads = rd ]

-----------------------------------------------------------------------------
(* Handles.  hs maps a handle to the path it was opened on and whether it   *)
(* is open; "caller" is the handle the caller opened, "internal" the one a  *)
(* reader opens itself (path "" until then).                                *)

\* tbls.open_file(path): the handle a reader opens itself.
open_file(hs, fs, path) ==
  IF path \in DOMAIN fs
  THEN [ h |-> "internal", err |-> NoErr,
         hs |-> [ hs EXCEPT !["internal"] = [ path |-> path, open |-> TRUE ] ] ]
  ELSE [ h |-> "none", err |-> IOError(path), hs |-> hs ]

\* tblsfile.close()
close(hs, h) == [ hs EXCEPT ![h].open = FALSE ]

\* The path each reader hands to tbls.open_file for a str argument.
SOFA_path(sofa_file) == sofa_file.val

AudioObject_path(sofa_file) == DefaultFileName

FIR_path(sofa_file) == DefaultFileName

\* The head of every from_file: reuse a File, else assert str and open.
resolve(sofa_file, hs, fs, path) ==
  IF ~IsFile(sofa_file)
  THEN IF ~IsStr(sofa_file)
       THEN [ h |-> "none", err |-> AssertionError, hs |-> hs ]
       ELSE open_file(hs, fs, path)
  ELSE [ h |-> sofa_file.val, err |-> NoErr, hs |-> hs ]

\* The tail of every from_file: whether the reader closes tblsfile.
SOFA_closes(sofa_file) == ~IsFile(sofa_file)

\* A variant of AudioObject_closes: the handle is closed whoever opened it.
AudioObject_closes_always(sofa_file) == TRUE

AudioObject_closes(sofa_file) == ~IsFile(sofa_file)

FIR_closes(sofa_file) == ~IsFile(sofa_file)

\* The container behind an open handle.
Cont(hs, fs, h) == fs[hs[h].path]

-----------------------------------------------------------------------------
(* The loops of the readers.                                                *)

RECURSIVE DataLoop(_, _, _, _, _, _)
\* for param in params: _add_data(self, tblsfile, '/' + prefix + param, name=param, required)
DataLoop(b, cont, prefix, params, required, i) ==
  IF i > Len(params) THEN b
  ELSE DataLoop(_add_data(b, cont, "/" \o prefix \o params[i], required, params[i]),
                cont, prefix, params, required, i + 1)

RECURSIVE PositionAttrLoop(_, _, _, _, _)
\* for param in req_attributes: _add_attribute(self, tblsfile, '/' + prefix + 'Position', param, name='Position'+param, required=True)
PositionAttrLoop(b, cont, prefix, params, i) ==
  IF i > Len(params) THEN b
  ELSE PositionAttrLoop(_add_attribute(b, cont, "/" \o prefix \o "Position", params[i],
                                       TRUE, "Position" \o params[i]),
                        cont, prefix, params, i + 1)

RECURSIVE RootAttrLoop(_, _, _, _, _)
\* for param in params: _add_attribute(self, tblsfile, '/', param, required)
RootAttrLoop(b, cont, params, required, i) ==
  IF i > Len(params) THEN b
  ELSE RootAttrLoop(_add_attribute(b, cont, "/", params[i], required, ""),
                    cont, params, required, i + 1)

\* param[5:] for the entries of FIR's `datasets`
Drop5(param) ==
  CASE param = "Data.IR" -> "IR"
    [] param = "Data.Delay" -> "Delay"
    [] param = "Data.SamplingRate" -> "SamplingRate"

RECURSIVE FIRDataLoop(_, _, _, _)
\* for param in datasets: _add_data(self, tblsfile, '/' + param, name=param[5:], required=True)
FIRDataLoop(b, cont, params, i) ==
  IF i > Len(params) THEN b
  ELSE FIRDataLoop(_add_data(b, cont, "/" \o params[i], TRUE, Drop5(params[i])),
                   cont, params, i + 1)

RECURSIVE FIRAttrLoop(_, _, _, _)
\* for param in attributes: _add_attribute(self, tblsfile, '/Data.SamplingRate', param, name='SamplingRate'+param, required=True)
FIRAttrLoop(b, cont, params, i) ==
  IF i > Len(params) THEN b
  ELSE FIRAttrLoop(_add_attribute(b, cont, "/Data.SamplingRate", params[i], TRUE,
                                  "SamplingRate" \o params[i]),
                   cont, params, i + 1)

-----------------------------------------------------------------------------
(* AudioObject and FIR.  A reader call returns [obj, err, reads, hs].       *)

\* A variant of AudioObject_binds: the optional datasets before the attributes.
AudioObject_binds_reordered(b, cont, object_string) ==
  PositionAttrLoop(
    DataLoop(
      DataLoop(b, cont, object_string, required_datasets, TRUE, 1),
      cont, object_string, other_datasets, FALSE, 1),
    cont, object_string, ao_req_attributes, 1)

\* AudioObject.from_file: the binds between resolve and close.
AudioObject_binds(b, cont, object_string) ==
  DataLoop(
    PositionAttrLoop(
      DataLoop(b, cont, object_string, required_datasets, TRUE, 1),
      cont, object_string, ao_req_attributes, 1),
    cont, object_string, other_datasets, FALSE, 1)

AudioObject_from_file(obj, sofa_file, hs, fs, reads) ==
  LET r == resolve(sofa_file, hs, fs, AudioObject_path(sofa_file)) IN
  IF r.err # NoErr
  THEN [ obj |-> obj, err |-> r.err, reads |-> reads, hs |-> r.hs ]
  ELSE LET b == AudioObject_binds([ obj |-> obj, err |-> NoErr, reads |-> reads ],
                                  Cont(r.hs, fs, r.h), obj["object_string"]) IN
       [ obj |-> b.obj, err |-> b.err, reads |-> b.reads,
         hs |-> IF b.err = NoErr /\ AudioObject_closes(sofa_file)
                THEN close(r.hs, r.h) ELSE r.hs ]

\* AudioObject(object_string, sofa_file)
AudioObject(object_string, sofa_file, hs, fs, reads) ==
  LET obj == setattr(EmptyObject, "object_string", object_string) IN
  IF Truthy(sofa_file)
  THEN AudioObject_from_file(obj, sofa_file, hs, fs, reads)
  ELSE [ obj |-> obj, err |-> NoErr, reads |-> reads, hs |-> hs ]

\* FIR.from_file: the binds between resolve and close.
FIR_binds(b, cont) ==
  FIRAttrLoop(FIRDataLoop(b, cont, datasets, 1), cont, fir_attributes, 1)

FIR_from_file(obj, sofa_file, hs, fs, reads) ==
  LET r == resolve(sofa_file, hs, fs, FIR_path(sofa_file)) IN
  IF r.err # NoErr
  THEN [ obj |-> obj, err |-> r.err, reads |-> reads, hs |-> r.hs ]
  ELSE LET b == FIR_binds([ obj |-> obj, err |-> NoErr, reads |-> reads ],
                          Cont(r.hs, fs, r.h)) IN
       [ obj |-> b.obj, err |-> b.err, reads |-> b.reads,
         hs |-> IF b.err = NoErr /\ FIR_closes(sofa_file)
                THEN close(r.hs, r.h) ELSE r.hs ]

\* FIR(sofa_file)
FIR(sofa_file, hs, fs, reads) ==
  IF Truthy(sofa_file)
  THEN FIR_from_file(EmptyObject, sofa_file, hs, fs, reads)
  ELSE [ obj |-> EmptyObject, err |-> NoErr, reads |-> reads, hs |-> hs ]

-----------------------------------------------------------------------------
(* SOFA.                                                                    *)

\* if self.DataType == 'FIR'
SOFA_dispatch(DataType) == DataType = "FIR"

\* raise Exception('Currently only the Datatype FIR is Implemented')
DispatchError(DataType) ==
  Exception(<< "Currently only the Datatype FIR is Implemented" >>)

\* The File argument SOFA.from_file passes to AudioObject and FIR.
AsFile(h) == [ kind |-> "File", val |-> h ]

VARIABLES
  files,      \* path -> container: the file system
  handles,    \* handle -> [path, open]
  pc,         \* position of the call in progress
  call,       \* the class whose reader the caller invoked
  entry,      \* for SOFA: entered through __init__ or through from_file
  sofa_file,  \* the argument of the call in progress
  self,       \* the object under construction
  tblsfile,   \* SOFA.from_file's local handle
  k,          \* index of the next AudioObject of SOFA.from_file
  err,        \* the exception that left the call, if any
  reads       \* the container reads made so far, in order

vars == << files, handles, pc, call, entry, sofa_file, self, tblsfile, k, err, reads >>

Init ==
  /\ \E c \in Containers :
       files = [ p \in { CallerPath, DefaultFileName } |->
                   IF p = CallerPath THEN c ELSE DefaultContainer ]
  /\ handles = [ h \in { "caller", "internal" } |->
                   IF h = "caller" THEN [ path |-> CallerPath, open |-> TRUE ]
                   ELSE [ path |-> "", open |-> FALSE ] ]
  /\ pc = "idle"
  /\ call = "none"
  /\ entry = "none"
  /\ sofa_file = [ kind |-> "None", val |-> "" ]
  /\ self = EmptyObject
  /\ tblsfile = "none"
  /\ k = 1
  /\ err = NoErr
  /\ reads = << >>

\* SOFA(sofa_file): __init__ calls from_file only for a truthy argument.
SOFA_init(a) ==
  /\ pc = "idle"
  /\ call' = "SOFA"
  /\ entry' = "__init__"
  /\ sofa_file' = a
  /\ pc' = IF Truthy(a) THEN "resolve" ELSE "returned"
  /\ UNCHANGED << files, handles, self, tblsfile, k, err, reads >>

\* obj.from_file(sofa_file) on the object that SOFA() returned unbuilt.
SOFA_from_file(a) ==
  /\ pc = "returned"
  /\ call = "SOFA"
  /\ entry = "__init__"
  /\ ~Truthy(sofa_file)
  /\ entry' = "from_file"
  /\ sofa_file' = a
  /\ pc' = "resolve"
  /\ UNCHANGED << files, handles, call, self, tblsfile, k, err, reads >>

\* from_file, lines 217-221
SOFA_resolve ==
  /\ pc = "resolve"
  /\ LET r == resolve(sofa_file, handles, files, SOFA_path(sofa_file)) IN
       /\ handles' = r.hs
       /\ tblsfile' = r.h
       /\ err' = r.err
       /\ pc' = IF r.err = NoErr THEN "required" ELSE "raised"
  /\ UNCHANGED << files, call, entry, sofa_file, self, k, reads >>

\* from_file, lines 227-234
SOFA_required ==
  /\ pc = "required"
  /\ LET b == RootAttrLoop([ obj |-> self, err |-> NoErr, reads |-> reads ],
                           Cont(handles, files, tblsfile), req_attributes, TRUE, 1) IN
       /\ self' = b.obj
       /\ reads' = b.reads
       /\ err' = b.err
       /\ pc' = IF b.err = NoErr THEN "other" ELSE "raised"
  /\ UNCHANGED << files, handles, call, entry, sofa_file, tblsfile, k >>

\* from_file, lines 237-242
SOFA_other ==
  /\ pc = "other"
  /\ LET b == RootAttrLoop([ obj |-> self, err |-> NoErr, reads |-> reads ],
                           Cont(handles, files, tblsfile), other_attributes, FALSE, 1) IN
       /\ self' = b.obj
       /\ reads' = b.reads
       /\ err' = b.err
       /\ pc' = IF b.err = NoErr THEN "audio" ELSE "raised"
  /\ UNCHANGED << files, handles, call, entry, sofa_file, tblsfile, k >>

\* from_file, lines 245-248: one of the four assignments
SOFA_audio ==
  /\ pc = "audio"
  /\ LET r == AudioObject(audio_objects[k].object_string, AsFile(tblsfile),
                          handles, files, reads) IN
       /\ handles' = r.hs
       /\ reads' = r.reads
       /\ err' = r.err
       /\ self' = IF r.err = NoErr THEN setattr(self, audio_objects[k].slot, r.obj) ELSE self
       /\ pc' = IF r.err # NoErr THEN "raised"
                ELSE IF k = Len(audio_objects) THEN "data" ELSE "audio"
       /\ k' = IF r.err = NoErr /\ k < Len(audio_objects) THEN k + 1 ELSE k
  /\ UNCHANGED << files, call, entry, sofa_file, tblsfile >>

\* from_file, lines 251-254
SOFA_data ==
  /\ pc = "data"
  /\ IF SOFA_dispatch(self["DataType"])
     THEN LET r == FIR(AsFile(tblsfile), handles, files, reads) IN
            /\ handles' = r.hs
            /\ reads' = r.reads
            /\ err' = r.err
            /\ self' = IF r.err = NoErr THEN setattr(self, "data", r.obj) ELSE self
            /\ pc' = IF r.err = NoErr THEN "close" ELSE "raised"
     ELSE /\ err' = DispatchError(self["DataType"])
          /\ pc' = "raised"
          /\ UNCHANGED << handles, reads, self >>
  /\ UNCHANGED << files, call, entry, sofa_file, tblsfile, k >>

\* from_file, lines 256-257
SOFA_close ==
  /\ pc = "close"
  /\ handles' = IF SOFA_closes(sofa_file) THEN close(handles, tblsfile) ELSE handles
  /\ pc' = "returned"
  /\ UNCHANGED << files, call, entry, sofa_file, self, tblsfile, k, err, reads >>

\* AudioObject(object_string, sofa_file), called by the caller itself.
New_AudioObject(object_string, a) ==
  /\ pc = "idle"
  /\ LET r == AudioObject(object_string, a, handles, files, reads) IN
       /\ handles' = r.hs
       /\ reads' = r.reads
       /\ err' = r.err
       /\ self' = r.obj
       /\ pc' = IF r.err = NoErr THEN "returned" ELSE "raised"
  /\ call' = "AudioObject"
  /\ sofa_file' = a
  /\ UNCHANGED << files, entry, tblsfile, k >>

\* FIR(sofa_file), called by the caller itself.
New_FIR(a) ==
  /\ pc = "idle"
  /\ LET r == FIR(a, handles, files, reads) IN
       /\ handles' = r.hs
       /\ reads' = r.reads
       /\ err' = r.err
       /\ self' = r.obj
       /\ pc' = IF r.err = NoErr THEN "returned" ELSE "raised"
  /\ call' = "FIR"
  /\ sofa_file' = a
  /\ UNCHANGED << files, entry, tblsfile, k >>

Next ==
  \/ \E a \in Args : SOFA_init(a)
  \/ \E a \in Args : SOFA_from_file(a)
  \/ SOFA_resolve
  \/ SOFA_required
  \/ SOFA_other
  \/ SOFA_audio
  \/ SOFA_data
  \/ SOFA_close
  \/ \E o \in ObjectStrings, a \in Args : New_AudioObject(o, a)
  \/ \E a \in Args : New_FIR(a)

Spec == Init /\ [][Next]_vars

-----------------------------------------------------------------------------
(* Vocabulary of the properties.                                            *)

\* The call has returned to its caller or has raised.
Terminal == pc \in { "returned", "raised" }

\* SOFA.from_file got past its first lines and holds a handle.
SOFAReading == call = "SOFA" /\ tblsfile # "none"

\* The container SOFA.from_file reads.
Source == Cont(handles, files, tblsfile)

\* The caller holds a reference to the SOFA object.
Observable == entry = "from_file" \/ pc = "returned"

ItemPresent(cont, item) ==
  IF item[2] = "" THEN NodePresent(cont, item[1]) ELSE AttrPresent(cont, item[1], item[2])

\* The name by which a binder's message identifies an item.
ItemName(item) == IF item[2] = "" THEN item[1] ELSE item[2]

OptionalRootItems == { <<"/", a>> : a \in Range(other_attributes) }

OptionalAudioItems ==
  { <<"/" \o r \o p, "">> : r \in ObjectStrings, p \in Range(other_datasets) }

RequiredItems == Items \ (OptionalRootItems \cup OptionalAudioItems)

\* The fields a built SOFA object must hold.
RequiredFields ==
  Range(req_attributes) \cup { audio_objects[i].slot : i \in DOMAIN audio_objects }
  \cup { "data" }

Unbuilt(o) == \A f \in RequiredFields : ~hasattr(o, f)

Built(o) == \A f \in RequiredFields : hasattr(o, f)

\* Number of binds that precede the DataType dispatch.
GeometryEnd == Len(BindOrder) - Cardinality(DataItems)

\* Position in BindOrder of the first absent required item among the first n; 0 if none.
FirstMissing(cont, n) ==
  LET M == { i \in 1..n : BindOrder[i] \in RequiredItems /\ ~ItemPresent(cont, BindOrder[i]) }
  IN IF M = {} THEN 0 ELSE CHOOSE i \in M : \A j \in M : i <= j

\* Number of binds a fail-fast pass in BindOrder makes on a container.
Stop(cont) ==
  LET f == FirstMissing(cont, GeometryEnd)
      g == FirstMissing(cont, Len(BindOrder))
  IN IF f # 0 THEN f
     ELSE IF cont.dataType # "FIR" THEN GeometryEnd
     ELSE IF g # 0 THEN g ELSE Len(BindOrder)

IsPrefix(s, t) == Len(s) <= Len(t) /\ s = SubSeq(t, 1, Len(s))

-----------------------------------------------------------------------------
(* C1: every SOFA call that opened the container itself ends, normally or   *)
(* by an exception, with that handle closed.                                *)
C1_InternalHandleClosedOnExit ==
  (call = "SOFA" /\ Terminal /\ handles["internal"].path # "")
    => ~handles["internal"].open

(* C2: a handle the caller passed in is never closed by SOFA, AudioObject   *)
(* or FIR, whether the call succeeds or raises.                             *)
C2_CallerHandleNeverClosed ==
  IsFile(sofa_file) => handles[sofa_file.val].open

\* SOFA.from_file on the caller's handle raised in FIR, after the four
\* AudioObject calls had received the handle; the handle is open.
C2_Witness ==
  /\ call = "SOFA" /\ IsFile(sofa_file) /\ pc = "raised"
  /\ hasattr(self, "emitter")
  /\ Len(reads) > GeometryEnd
  /\ handles["caller"].open

(* C3: when a required root attribute is absent (and every required root    *)
(* attribute before it is present), SOFA raises the required-attribute      *)
(* error naming that attribute and the attribute gets no value.             *)
C3_RequiredRootAttributeMissing ==
  \A i \in DOMAIN req_attributes :
    ( /\ SOFAReading /\ Terminal
      /\ <<"/", req_attributes[i]>> \in Source.missing
      /\ \A j \in 1..(i - 1) : <<"/", req_attributes[j]>> \notin Source.missing )
    => /\ pc = "raised"
       /\ err = Exception(<< "Required Attribute ", req_attributes[i], " not found!" >>)
       /\ ~hasattr(self, req_attributes[i])

\* The container lacks only License, the last required attribute; SOFA raised.
C3_Witness ==
  /\ SOFAReading /\ pc = "raised"
  /\ Source.missing = { <<"/", "License">> }
  /\ req_attributes[Len(req_attributes)] \in Range(err.msg)
  /\ hasattr(self, "Organization")

(* C4: when DataType holds an unregistered tag, SOFA raises an error that    *)
(* names the tag, whatever else the container holds or lacks.               *)
C4_UnsupportedDataTypeNamed ==
  ( /\ SOFAReading /\ Terminal
    /\ <<"/", "DataType">> \notin Source.missing
    /\ Source.dataType # "FIR" )
  => /\ pc = "raised"
     /\ err.kind = "Exception"
     /\ Source.dataType \in Range(err.msg)

(* C5: when only optional root attributes are absent from a well-formed     *)
(* container, SOFA returns without error and exactly the absent attributes  *)
(* are unassigned on the object; a present one holds the value read, which  *)
(* may be the empty string.                                                 *)
C5_OptionalRootAttributeAbsent ==
  ( /\ SOFAReading /\ Terminal
    /\ Source.missing # {}
    /\ Source.missing \subseteq OptionalRootItems
    /\ Source.dataType = "FIR" )
  => /\ pc = "returned"
     /\ err = NoErr
     /\ Built(self)
     /\ \A a \in Range(other_attributes) :
          IF <<"/", a>> \in Source.missing
          THEN ~hasattr(self, a)
          ELSE hasattr(self, a) /\ self[a] = Source.text

\* Comment is absent and unassigned while History is present and empty.
C5_Witness ==
  /\ SOFAReading /\ pc = "returned"
  /\ Source.missing = { <<"/", "Comment">> }
  /\ Source.text = ""
  /\ ~hasattr(self, "Comment")
  /\ hasattr(self, "History") /\ self["History"] = ""

(* C6: for each role, a container without {role}Position makes SOFA raise   *)
(* and leaves the role's slot unassigned (the required-dataset error names  *)
(* the node when nothing else is absent); a well-formed container lacking   *)
(* only Description, View or Up datasets is read successfully, each entity  *)
(* lacking exactly its absent datasets and holding Position, PositionType   *)
(* and PositionUnits.                                                       *)
C6_GeometryRequiredAndOptional ==
  (SOFAReading /\ Terminal) =>
    /\ \A i \in DOMAIN audio_objects :
         LET node == "/" \o audio_objects[i].object_string \o "Position" IN
         /\ <<node, "">> \in Source.missing
              => pc = "raised" /\ ~hasattr(self, audio_objects[i].slot)
                   /\ ~hasattr(self, "data")
         /\ Source.missing = { <<node, "">> }
              => err = Exception(<< "Required Dataset ", node, " not found!" >>)
    /\ ( /\ Source.missing # {}
         /\ Source.missing \subseteq OptionalAudioItems
         /\ Source.dataType = "FIR" )
       => /\ pc = "returned"
          /\ err = NoErr
          /\ \A i \in DOMAIN audio_objects :
               LET o == audio_objects[i].object_string
                   e == self[audio_objects[i].slot]
               IN /\ { "Position", "PositionType", "PositionUnits" } \subseteq DOMAIN e
                  /\ \A p \in Range(other_datasets) :
                       hasattr(e, p) <=> <<"/" \o o \o p, "">> \notin Source.missing

\* SOFA returned an aggregate whose source lacks only ReceiverView.
C6_Witness ==
  /\ SOFAReading /\ pc = "returned"
  /\ Source.missing = { <<"/ReceiverView", "">> }
  /\ ~hasattr(self["receiver"], "View")
  /\ hasattr(self["receiver"], "Up")

\* SOFA raised on a container that lacks only SourcePosition.
C6_WitnessRequired ==
  /\ SOFAReading /\ pc = "raised"
  /\ Source.missing = { <<"/SourcePosition", "">> }
  /\ hasattr(self, "listener") /\ ~hasattr(self, "source")

(* C7: after a SOFA call has returned or raised, an object the caller can    *)
(* reach is unbuilt or fully built, never in between.                       *)
C7_AllOrNothing ==
  (call = "SOFA" /\ Terminal /\ Observable) => (Unbuilt(self) \/ Built(self))

(* C8, as claimed: SOFA(sofa_file) with None, '', or a value that is         *)
(* neither a str nor a File raises and returns no object.                   *)
InvalidArg(a) == a.kind \in { "None", "int" } \/ (a.kind = "str" /\ a.val = "")

C8_WitnessAssertion ==
  /\ call = "SOFA" /\ entry = "__init__" /\ pc = "raised"
  /\ sofa_file.kind = "int" /\ err = AssertionError

(* C9: a reader given a str opens the file at that path.                    *)
C9_OpensCallerPath ==
  (IsStr(sofa_file) /\ handles["internal"].path # "")
    => handles["internal"].path = sofa_file.val

(* C10: SOFA.from_file binds in the fixed order BindOrder and stops at the  *)
(* first failure: the reads made are always a prefix of BindOrder; at the   *)
(* end they are exactly the prefix up to the first absent required item     *)
(* (or up to the DataType dispatch when that fails first), the error names  *)
(* that item, and a container lacking nothing required is read to the end.  *)
C10_FixedOrderFailFast ==
  SOFAReading =>
    /\ IsPrefix(reads, BindOrder)
    /\ Terminal =>
         LET n == Stop(Source)
             f == FirstMissing(Source, n)
         IN /\ reads = SubSeq(BindOrder, 1, n)
            /\ IF f # 0
               THEN /\ f = n
                    /\ pc = "raised"
                    /\ err.kind = "Exception"
                    /\ err.msg[2] = ItemName(BindOrder[n])
               ELSE IF Source.dataType # "FIR"
               THEN pc = "raised" /\ err = DispatchError(Source.dataType)
               ELSE pc = "returned" /\ n = Len(BindOrder)

\* Several required items are absent at once; SOFA raised at the first.
C10_Witness ==
  /\ SOFAReading /\ pc = "raised"
  /\ Cardinality(Source.missing \cap RequiredItems) >= 2
  /\ Len(reads) = FirstMissing(Source, Len(BindOrder))
  /\ Len(reads) > Len(req_attributes)

====
